---- MODULE Spec2Model ----
(***************************************************************************)
(* Model of the Oceanic VEO 250 backend of libdivecomputer                 *)
(* (src/src/oceanic_veo250.c): the session (open / close), the init and    *)
(* handshake exchanges, the frame transfer with its ACK/NAK retry loop,    *)
(* and the version, read and dump operations built on it.                  *)
(*                                                                         *)
(* The program is single threaded and blocks in every serial_* call, so    *)
(* the state machine has one position (pc) per blocking transport call.    *)
(* Each action is the code that runs from one transport call to the next;  *)
(* what the transport (the device) answers is drawn with \E.               *)
(***************************************************************************)
EXTENDS Integers, Sequences, FiniteSets, TLC

\* ------------------------------------------------------------------------
\* Program constants
\* ------------------------------------------------------------------------

MAXRETRIES == 2
ACK == 90
NAK == 165

\* OCEANIC_VEO250_PACKET_SIZE and OCEANIC_VEO250_MEMORY_SIZE come from
\* oceanic_veo250.h; the memory is a whole number of packets.  The model
\* scales both down: a packet of PACKET_SIZE bytes, a memory of MemPackets
\* packets.
PACKET_SIZE == 2
MemPackets == 2
MEMORY_SIZE == MemPackets * PACKET_SIZE

\* ------------------------------------------------------------------------
\* Bounds of the model
\* ------------------------------------------------------------------------

\* A read asks for at most MaxPackets packets.
MaxPackets == 2

\* What the device may send.  An answer frame is PACKET_SIZE payload bytes, a
\* checksum byte and a terminator byte; 255 + 1 wraps around in the 8 bit
\* checksum.  A command is answered with ACK, NAK or some other byte.
PayloadBytes == {1, 255}
CrcBytes == {0, 2, 254}
TermBytes == {NAK, 0}
AckBytes == {ACK, NAK, 0}
Frames ==
    {p \o <<c, t>> : p \in [1..PACKET_SIZE -> PayloadBytes],
                     c \in CrcBytes, t \in TermBytes}

\* Start addresses of a read (multiples of PACKET_SIZE, see the assert at
\* line 339): packet numbers 0, 255 (the low byte is about to carry) and
\* 65535 (the last number the 16 bit encoding can hold).
Addresses == {0, 255 * PACKET_SIZE, 65535 * PACKET_SIZE}

\* ------------------------------------------------------------------------
\* Pure helpers
\* ------------------------------------------------------------------------

\* EXITCODE(rc): -1 is an I/O error, every other short count a timeout.
EXITCODE(rc) == IF rc = -1 THEN "IO" ELSE "TIMEOUT"

RECURSIVE SumBytes(_, _)
SumBytes(answer, len) ==
    IF len = 0 THEN 0 ELSE answer[len] + SumBytes(answer, len - 1)

\* checksum_add_uint8 (checksum.c): the bytes and the seed added up in an
\* unsigned char.
checksum_add_uint8(answer, len, init) == (init + SumBytes(answer, len)) % 256

\* A buffer the caller hands in: size bytes the call has not written yet.
\* 238 (0xEE) is no byte the modelled device sends.
FreshBuffer(len) == [i \in 1..len |-> 238]

\* unsigned char answer[...] = {0}
ZeroBuffer(len) == [i \in 1..len |-> 0]

\* What serial_read leaves in a buffer: the first n bytes received, the
\* rest as it was.
ReadInto(buf, bytes, n) ==
    [i \in 1..Len(buf) |-> IF i <= n THEN bytes[i] ELSE buf[i]]

MutMemcpyShifted(dst, off, src, len) ==
    [i \in 1..Len(dst) |->
        IF i > off /\ i <= off + len THEN src[i - off + 1] ELSE dst[i]]
MutMemcpyNoOffset(dst, off, src, len) ==
    [i \in 1..Len(dst) |-> IF i <= len THEN src[i] ELSE dst[i]]
\* memcpy (data, answer, len), with data pointing off bytes into dst.
Memcpy(dst, off, src, len) ==
    [i \in 1..Len(dst) |->
        IF i > off /\ i <= off + len THEN src[i - off] ELSE dst[i]]

\* device_is_oceanic_veo250: the handle is not NULL and has this backend.
device_is_oceanic_veo250(handle) == handle = "veo250"

Handles == {"veo250", "other", "null"}

\* ------------------------------------------------------------------------
\* oceanic_veo250_send
\* ------------------------------------------------------------------------

\* The results of serial_write and serial_drain are not looked at.
oceanic_veo250_send(wrc, drc) == "SUCCESS"

\* ------------------------------------------------------------------------
\* oceanic_veo250_transfer: the decisions
\* ------------------------------------------------------------------------

MutRetriesExhaustedLate(n) == n > MAXRETRIES
\* if (nretries++ >= MAXRETRIES) break;   (n is nretries before the ++)
RetriesExhausted(n) == n >= MAXRETRIES

MutAckReadFailedOnErrorOnly(n) == n = -1
\* if (n != 1)   (n is what serial_read returned for the 1 byte response)
AckReadFailed(n) == n # 1

MutLoopWhileNotNak(resp) == resp # NAK
MutLoopOnAnyNonAck(resp) == resp # ACK
\* while (response == NAK)
LoopContinues(resp) == resp = NAK

MutCrcUnchecked(answer) == TRUE
\* crc == ccrc
CrcMatches(answer) ==
    answer[PACKET_SIZE + 1] = checksum_add_uint8(answer, PACKET_SIZE, 0)

MutTerminatorUnchecked(answer) == TRUE
\* answer[OCEANIC_VEO250_PACKET_SIZE + 1] == NAK
TerminatorMatches(answer) == answer[PACKET_SIZE + 2] = NAK

\* Lines 139-159: the status of the transfer once the answer was read.
AnswerStatus(n, answer) ==
    IF n # PACKET_SIZE + 2 THEN EXITCODE(n)
    ELSE IF ~CrcMatches(answer) THEN "PROTOCOL"
    ELSE IF ~TerminatorMatches(answer) THEN "PROTOCOL"
    ELSE "SUCCESS"

\* ------------------------------------------------------------------------
\* Commands
\* ------------------------------------------------------------------------

InitCommand == <<85, 0>>
HandshakeCommand == <<152, 0>>
VersionCommand == <<144, 0>>

MutPacketNumberNext(addr) == addr \div PACKET_SIZE + 1
\* unsigned int number = address / OCEANIC_VEO250_PACKET_SIZE;
PacketNumber(addr) == addr \div PACKET_SIZE

MutReadCommandLowOnly(number) ==
    << 32, number % 256, 0, number % 256, 0, 0 >>
\* Lines 350-355: the command of read for packet number.
ReadCommand(number) ==
    << 32,
       number % 256,
       (number \div 256) % 256,
       number % 256,
       (number \div 256) % 256,
       0 >>

\* ------------------------------------------------------------------------
\* oceanic_veo250_handshake: the banner
\* ------------------------------------------------------------------------

\* "PPS--OK_V2.00\0"
Banner == <<80, 80, 83, 45, 45, 79, 75, 95, 86, 50, 46, 48, 48, 0>>
BannerLen == Len(Banner)

MutBannerPrefixOnly(answer) ==
    \A i \in 1..(BannerLen - 1) : answer[i] = Banner[i]
\* memcmp (answer, response, sizeof (response)) == 0
BannerMatches(answer) == \A i \in 1..BannerLen : answer[i] = Banner[i]

\* Lines 191-206: the status of the handshake once the reply was read.
HandshakeStatus(n, answer) ==
    IF n # BannerLen THEN EXITCODE(n)
    ELSE IF ~BannerMatches(answer) THEN "PROTOCOL"
    ELSE "SUCCESS"

\* What the device may answer a handshake with: the banner, or the banner
\* with one byte replaced.
MutatedBanner(i, b) == [Banner EXCEPT ![i] = b]
HandshakeReplies ==
    {Banner} \cup {MutatedBanner(i, b) : i \in 1..BannerLen, b \in {0, 80}}

\* ------------------------------------------------------------------------
\* State
\* ------------------------------------------------------------------------

VARIABLES
    port,       \* the serial port: "closed", "open", "leaked" (serial_close failed)
    alloc,      \* the oceanic_veo250_device_t is allocated
    op,         \* the API call in progress: "none", "open", "close",
                \* "version", "read", "dump"
    handle,     \* close, version, read, dump: the device_t handed in,
                \* "veo250" (this backend), "other", "null"; "none": no call
    pc,         \* where the call is: "idle", "init_send", "hs_send",
                \* "hs_read", "close_port", "t_send", "t_ack", "t_frame",
                \* "done"
    status,     \* what the call returned ("NONE" until it returns)
    command,    \* transfer: the command
    nretries,   \* transfer: nretries
    response,   \* transfer: response
    answer,     \* the answer[PACKET_SIZE + 2] of the caller of the transfer
    address,    \* read: address
    nbytes,     \* read: nbytes
    size,       \* read: size
    doff,       \* read: how far data has been advanced
    data,       \* the caller's destination buffer
    cap,        \* version, dump: the size argument (the buffer's capacity)
    resultPtr,  \* dump: result is not NULL
    result,     \* dump: *result, <<>> while not written
    hsStatus,   \* what the last handshake returned
    initStatus, \* what the last init returned
    closeRc,    \* what serial_close returned in close (1: not called)
    \* Observations of the call in progress (not program state):
    address0,   \* read: the address argument
    wfailed,    \* some serial_write or serial_drain failed
    log         \* what happened, in order:
                \*   <<"p", number>>  read asks for packet number
                \*   <<"t", cmd>>     oceanic_veo250_transfer entered with cmd
                \*   <<"w", cmd>>     cmd written to the port (and drained)
                \*   <<"a", n, b>>    the acknowledgement read returned n;
                \*                    response is b after it
                \*   <<"f", n, buf>>  the answer read returned n; answer is buf
                \*   <<"ret", rc>>    the transfer returned rc
                \*   <<"h", n, buf>>  the handshake read returned n; answer
                \*                    is buf

sessionVars == <<port, alloc>>
transferVars == <<command, nretries, response, answer>>
readVars == <<address, nbytes, size, doff>>
bufferVars == <<data, cap, resultPtr, result>>
shakeVars == <<hsStatus, initStatus, closeRc>>
obsVars == <<address0, wfailed, log>>

vars == <<port, alloc, op, handle, pc, status,
          command, nretries, response, answer,
          address, nbytes, size, doff, data, cap, resultPtr, result,
          hsStatus, initStatus, closeRc, address0, wfailed, log>>

\* The locals and observations of a call before it starts.
Cleared ==
    /\ command = <<>> /\ nretries = 0 /\ response = NAK
    /\ answer = ZeroBuffer(PACKET_SIZE + 2)
    /\ address = 0 /\ nbytes = 0 /\ size = 0 /\ doff = 0
    /\ data = <<>> /\ cap = 0 /\ resultPtr = FALSE /\ result = <<>>
    /\ hsStatus = "NONE" /\ initStatus = "NONE" /\ closeRc = 1
    /\ address0 = 0 /\ wfailed = FALSE /\ log = <<>>

Init ==
    /\ port = "closed" /\ alloc = FALSE
    /\ op = "none" /\ handle = "none" /\ pc = "idle" /\ status = "NONE"
    /\ Cleared

\* ------------------------------------------------------------------------
\* oceanic_veo250_send, as a step: the command goes out on the port
\* ------------------------------------------------------------------------

\* serial_write / serial_drain return -1 on failure.
WriteResults == {-1, 0}

\* What serial_read may return when asked for len bytes: a failure, nothing,
\* all but one byte, or all of them.
ReadResults(len) == {-1, 0, len - 1, len}

\* ------------------------------------------------------------------------
\* oceanic_veo250_device_open
\* ------------------------------------------------------------------------

\* Lines 213-267: allocate, open and set up the port.  Every failure frees
\* the device, and calls serial_close once the port was opened.
OpenSetupStatus(outNull, mallocOk, rcOpen, rcConf, rcTimeout, rcDtr, rcRts) ==
    IF outNull THEN "ERROR"
    ELSE IF ~mallocOk THEN "MEMORY"
    ELSE IF rcOpen = -1 THEN "IO"
    ELSE IF rcConf = -1 THEN "IO"
    ELSE IF rcTimeout = -1 THEN "IO"
    ELSE IF rcDtr = -1 \/ rcRts = -1 THEN "IO"
    ELSE "SUCCESS"

\* The port after a set-up that ended in rc.  Before serial_open has
\* succeeded (lines 211-233) no port is touched: it stays as the last
\* session left it.  A failure after that calls serial_close (lines 241,
\* 249, 258) and drops its result rcClose: on -1 the port was not closed.
OpenSetupPort(outNull, mallocOk, rcOpen, rc, rcClose, before) ==
    IF rc = "SUCCESS" THEN "open"
    ELSE IF outNull \/ ~mallocOk \/ rcOpen = -1 THEN before
    ELSE IF rcClose = -1 THEN "leaked"
    ELSE "closed"

OpenCall ==
    /\ pc = "idle" /\ ~alloc
    /\ \E outNull, mallocOk \in BOOLEAN :
       \E rcOpen, rcConf, rcTimeout, rcDtr, rcRts, rcClose \in {-1, 0} :
         LET rc == OpenSetupStatus(outNull, mallocOk, rcOpen, rcConf,
                                   rcTimeout, rcDtr, rcRts)
         IN  /\ op' = "open" /\ handle' = handle
             /\ port' = OpenSetupPort(outNull, mallocOk, rcOpen, rc,
                                      rcClose, port)
             /\ IF rc = "SUCCESS"
                THEN /\ alloc' = TRUE
                     /\ pc' = "init_send" /\ status' = status
                ELSE /\ alloc' = FALSE
                     /\ pc' = "done" /\ status' = rc
    /\ UNCHANGED <<transferVars, readVars, bufferVars, shakeVars, obsVars>>

MutInitNotSent ==
    /\ pc = "init_send"
    /\ pc' = "hs_send"
    /\ initStatus' = "SUCCESS"
    /\ UNCHANGED <<sessionVars, op, handle, status, transferVars, readVars,
                   bufferVars, hsStatus, closeRc, address0, wfailed, log>>
\* oceanic_veo250_init, lines 167-174.
InitSend ==
    /\ pc = "init_send"
    /\ \E wrc, drc \in WriteResults :
         /\ wfailed' = (wfailed \/ wrc = -1 \/ drc = -1)
         /\ initStatus' = oceanic_veo250_send(wrc, drc)
    /\ log' = Append(log, <<"w", InitCommand>>)
    /\ pc' = "hs_send"
    /\ UNCHANGED <<sessionVars, op, handle, status, transferVars, readVars,
                   bufferVars, hsStatus, closeRc, address0>>

\* ------------------------------------------------------------------------
\* oceanic_veo250_handshake and what its callers do with its status
\* ------------------------------------------------------------------------

MutOpenPropagates(rc) ==
    /\ pc' = "done" /\ status' = rc
\* Lines 271-275: open ignores the status and hands out the session.
OpenAfterHandshake(rc) ==
    /\ pc' = "done" /\ status' = "SUCCESS"

MutCloseStopsOnHandshakeFailure(rc) ==
    IF rc # "SUCCESS"
    THEN pc' = "done" /\ status' = rc
    ELSE pc' = "close_port" /\ status' = status
\* Lines 288-291: close ignores the status and goes on to serial_close.
CloseAfterHandshake(rc) ==
    /\ pc' = "close_port" /\ status' = status

HandshakeReturns(rc) ==
    /\ hsStatus' = rc
    /\ IF op = "open" THEN OpenAfterHandshake(rc) ELSE CloseAfterHandshake(rc)

\* Lines 182-187.
HandshakeSend ==
    /\ pc = "hs_send"
    /\ log' = Append(log, <<"w", HandshakeCommand>>)
    /\ \E wrc, drc \in WriteResults :
         /\ wfailed' = (wfailed \/ wrc = -1 \/ drc = -1)
         /\ LET rc == oceanic_veo250_send(wrc, drc)
            IN  IF rc # "SUCCESS"
                THEN HandshakeReturns(rc)
                ELSE pc' = "hs_read" /\ UNCHANGED <<hsStatus, status>>
    /\ UNCHANGED <<sessionVars, op, handle, transferVars, readVars, bufferVars,
                   initStatus, closeRc, address0>>

\* Lines 190-206.
HandshakeRead ==
    /\ pc = "hs_read"
    /\ \E n \in ReadResults(BannerLen), reply \in HandshakeReplies :
         LET buf == ReadInto(ZeroBuffer(BannerLen), reply, n)
         IN  /\ log' = Append(log, <<"h", n, buf>>)
             /\ HandshakeReturns(HandshakeStatus(n, buf))
    /\ UNCHANGED <<sessionVars, op, handle, transferVars, readVars, bufferVars,
                   initStatus, closeRc, address0, wfailed>>

\* ------------------------------------------------------------------------
\* oceanic_veo250_device_close
\* ------------------------------------------------------------------------

\* Lines 282-288.  A handle of another backend (or NULL) is turned away.
CloseCall ==
    /\ pc = "idle" /\ alloc
    /\ op' = "close"
    /\ \E h \in Handles :
         /\ handle' = h
         /\ IF ~device_is_oceanic_veo250(h)
            THEN pc' = "done" /\ status' = "TYPE_MISMATCH"
            ELSE pc' = "hs_send" /\ status' = status
    /\ UNCHANGED <<sessionVars, transferVars, readVars, bufferVars,
                   shakeVars, obsVars>>

\* Lines 291-299: the device is freed whatever serial_close returns.
CloseStatus(rc) == IF rc = -1 THEN "IO" ELSE "SUCCESS"

ClosePort ==
    /\ pc = "close_port"
    /\ \E rc \in {-1, 0} :
         /\ closeRc' = rc
         /\ port' = IF rc = -1 THEN "leaked" ELSE "closed"
         /\ status' = CloseStatus(rc)
    /\ alloc' = FALSE
    /\ pc' = "done"
    /\ UNCHANGED <<op, handle, transferVars, readVars, bufferVars,
                   hsStatus, initStatus, obsVars>>

\* ------------------------------------------------------------------------
\* oceanic_veo250_transfer and its callers
\* ------------------------------------------------------------------------

\* oceanic_veo250_device_read returns rc: to the caller of read, or to
\* oceanic_veo250_device_dump (lines 389-395).
ReadReturns(rc) ==
    /\ pc' = "done"
    /\ status' = rc
    /\ result' = IF op = "dump" /\ rc = "SUCCESS" /\ resultPtr'
                 THEN <<MEMORY_SIZE>> ELSE result
    /\ command' = command

\* Line 346, the head of the loop of read, with the locals as given and
\* after the events evs.  A round declares answer[] = {0} anew (line 349)
\* and entering the transfer (lines 97-106) sets its locals; otherwise they
\* are as the last transfer left them (nr, resp, ans).
ReadLoop(addr, nb, off, evs, nr, resp, ans) ==
    /\ address' = addr /\ nbytes' = nb /\ doff' = off
    /\ IF nb < size'
       THEN LET number == PacketNumber(addr)
                cmd == ReadCommand(number)
            IN  /\ command' = cmd /\ nretries' = 0 /\ response' = NAK
                /\ answer' = ZeroBuffer(PACKET_SIZE + 2)
                /\ log' = evs \o << <<"p", number>>, <<"t", cmd>> >>
                /\ pc' = "t_send"
                /\ UNCHANGED <<status, result>>
       ELSE /\ ReadReturns("SUCCESS")
            /\ nretries' = nr /\ response' = resp /\ answer' = ans
            /\ log' = evs

\* Lines 322-325 (NDEBUG is not defined in the build): after the memcpy
\* version ends its answer with a zero byte, over the checksum byte, to
\* print it as a string.
DebugTerminated(ans) == [ans EXCEPT ![PACKET_SIZE + 1] = 0]

\* Lines 317-327: version gets rc from the transfer.
VersionAfterTransfer(rc, evs, nr, resp, ans) ==
    /\ pc' = "done"
    /\ status' = rc
    /\ data' = IF rc # "SUCCESS" THEN data
               ELSE Memcpy(data, 0, ans, PACKET_SIZE)
    /\ answer' = IF rc # "SUCCESS" THEN ans ELSE DebugTerminated(ans)
    /\ log' = evs
    /\ nretries' = nr /\ response' = resp
    /\ UNCHANGED <<readVars, result, command>>

MutReadIgnoresFailure(rc, evs, nr, resp, ans) ==
    /\ data' = Memcpy(data, doff, ans, PACKET_SIZE)
    /\ size' = size
    /\ ReadLoop(address + PACKET_SIZE, nbytes + PACKET_SIZE,
                doff + PACKET_SIZE, evs, nr, resp, ans)
\* Lines 357-373: read gets rc from the transfer.
ReadAfterTransfer(rc, evs, nr, resp, ans) ==
    IF rc # "SUCCESS"
    THEN /\ ReadReturns(rc)
         /\ nretries' = nr /\ response' = resp /\ answer' = ans
         /\ log' = evs
         /\ UNCHANGED <<readVars, data>>
    ELSE /\ data' = Memcpy(data, doff, ans, PACKET_SIZE)
         /\ size' = size
         /\ ReadLoop(address + PACKET_SIZE, nbytes + PACKET_SIZE,
                     doff + PACKET_SIZE, evs, nr, resp, ans)

\* The transfer returns rc after the events evs, leaving nretries = nr,
\* response = resp and the caller's answer buffer = ans.
TransferReturns(rc, evs, nr, resp, ans) ==
    IF op = "version"
    THEN VersionAfterTransfer(rc, evs \o << <<"ret", rc>> >>, nr, resp, ans)
    ELSE ReadAfterTransfer(rc, evs \o << <<"ret", rc>> >>, nr, resp, ans)

\* Lines 108-113: the command is sent.
TransferSend ==
    /\ pc = "t_send"
    /\ UNCHANGED <<sessionVars, op, handle, cap, resultPtr, shakeVars, address0>>
    /\ \E wrc, drc \in WriteResults :
         /\ wfailed' = (wfailed \/ wrc = -1 \/ drc = -1)
         /\ LET rc == oceanic_veo250_send(wrc, drc)
                evs == Append(log, <<"w", command>>)
            IN  IF rc # "SUCCESS"
                THEN TransferReturns(rc, evs, nretries, response, answer)
                ELSE /\ pc' = "t_ack"
                     /\ log' = evs
                     /\ UNCHANGED <<status, transferVars, readVars, data,
                                    result>>

\* Lines 116-136: the acknowledgement is read; the loop goes round, or the
\* transfer fails, or it goes on to read the answer.
TransferAck ==
    /\ pc = "t_ack"
    /\ UNCHANGED <<sessionVars, op, handle, cap, resultPtr, shakeVars, address0,
                   wfailed>>
    /\ \E n \in ReadResults(1), b \in AckBytes :
         LET resp == IF n = 1 THEN b ELSE response
             evs == Append(log, <<"a", n, resp>>)
         IN  /\ (n # 1 => b = ACK)
             /\ IF AckReadFailed(n)
                THEN TransferReturns(EXITCODE(n), evs, nretries, response,
                                     answer)
                ELSE IF ~RetriesExhausted(nretries) /\ LoopContinues(resp)
                THEN /\ pc' = "t_send"
                     /\ response' = resp
                     /\ nretries' = nretries + 1
                     /\ log' = evs
                     /\ UNCHANGED <<status, command, answer, readVars, data,
                                    result>>
                ELSE IF resp # ACK
                THEN TransferReturns("PROTOCOL", evs, nretries + 1, resp,
                                     answer)
                ELSE /\ pc' = "t_frame"
                     /\ response' = resp
                     /\ nretries' = nretries + 1
                     /\ log' = evs
                     /\ UNCHANGED <<status, command, answer, readVars, data,
                                    result>>

\* Lines 139-159: the answer is read and verified.
TransferFrame ==
    /\ pc = "t_frame"
    /\ UNCHANGED <<sessionVars, op, handle, cap, resultPtr, shakeVars, address0,
                   wfailed>>
    /\ \E n \in ReadResults(PACKET_SIZE + 2), frame \in Frames :
         \* serial_read fills the first n bytes of the caller's answer[]
         LET buf == ReadInto(answer, frame, n)
         IN  TransferReturns(AnswerStatus(n, buf),
                             Append(log, <<"f", n, buf>>),
                             nretries, response, buf)

\* ------------------------------------------------------------------------
\* oceanic_veo250_device_version, _read, _dump: the calls
\* ------------------------------------------------------------------------

MutVersionNoSizeCheck(sz) == FALSE
\* size < OCEANIC_VEO250_PACKET_SIZE
VersionTooSmall(sz) == sz < PACKET_SIZE

MutDumpChecksPacketSize(sz) == sz < PACKET_SIZE
\* size < OCEANIC_VEO250_MEMORY_SIZE
DumpTooSmall(sz) == sz < MEMORY_SIZE

\* Lines 306-316.
VersionCall ==
    /\ pc = "idle" /\ alloc
    /\ op' = "version"
    /\ \E h \in Handles, sz \in {PACKET_SIZE - 1, PACKET_SIZE,
                                PACKET_SIZE + 1} :
         /\ handle' = h
         /\ cap' = sz
         /\ data' = FreshBuffer(sz)
         /\ IF ~device_is_oceanic_veo250(h)
            THEN /\ pc' = "done" /\ status' = "TYPE_MISMATCH"
                 /\ UNCHANGED <<command, nretries, response, answer, log>>
            ELSE IF VersionTooSmall(sz)
            THEN /\ pc' = "done" /\ status' = "MEMORY"
                 /\ UNCHANGED <<command, nretries, response, answer, log>>
            ELSE /\ command' = VersionCommand
                 /\ answer' = ZeroBuffer(PACKET_SIZE + 2)
                 /\ nretries' = 0 /\ response' = NAK
                 /\ log' = << <<"t", VersionCommand>> >>
                 /\ pc' = "t_send" /\ status' = status
    /\ UNCHANGED <<sessionVars, readVars, resultPtr, result,
                   shakeVars, address0, wfailed>>

\* Lines 334-346.  address and size are multiples of the packet size (the
\* asserts at lines 339-340); the caller's buffer has room for size bytes,
\* and the model gives it one packet more.
ReadCall ==
    /\ pc = "idle" /\ alloc
    /\ op' = "read"
    /\ \E h \in Handles, addr \in Addresses, k \in 0..MaxPackets :
         /\ handle' = h
         /\ address0' = addr
         /\ data' = FreshBuffer(k * PACKET_SIZE + PACKET_SIZE)
         /\ resultPtr' = resultPtr
         /\ IF ~device_is_oceanic_veo250(h)
            THEN /\ pc' = "done" /\ status' = "TYPE_MISMATCH"
                 /\ size' = k * PACKET_SIZE
                 /\ address' = addr
                 /\ UNCHANGED <<command, nretries, response, answer, log,
                                nbytes, doff, result>>
            ELSE /\ size' = k * PACKET_SIZE
                 /\ ReadLoop(addr, 0, 0, <<>>, nretries, response, answer)
    /\ UNCHANGED <<sessionVars, cap, shakeVars, wfailed>>

\* Lines 382-388.
DumpCall ==
    /\ pc = "idle" /\ alloc
    /\ op' = "dump"
    /\ \E h \in Handles, rp \in BOOLEAN,
          sz \in {MEMORY_SIZE - 1, MEMORY_SIZE, MEMORY_SIZE + 1} :
         /\ handle' = h
         /\ cap' = sz
         /\ data' = FreshBuffer(sz)
         /\ resultPtr' = rp
         /\ IF ~device_is_oceanic_veo250(h)
            THEN /\ pc' = "done" /\ status' = "TYPE_MISMATCH"
                 /\ UNCHANGED <<command, nretries, response, answer, log,
                                readVars, result>>
            ELSE IF DumpTooSmall(sz)
            THEN /\ pc' = "done" /\ status' = "ERROR"
                 /\ UNCHANGED <<command, nretries, response, answer, log,
                                readVars, result>>
            ELSE /\ size' = MEMORY_SIZE
                 /\ ReadLoop(0, 0, 0, <<>>, nretries, response, answer)
    /\ UNCHANGED <<sessionVars, shakeVars, address0, wfailed>>

\* The call has returned; the caller goes on.
Return ==
    /\ pc = "done"
    /\ pc' = "idle" /\ op' = "none" /\ handle' = "none" /\ status' = "NONE"
    /\ command' = <<>> /\ nretries' = 0 /\ response' = NAK
    /\ answer' = ZeroBuffer(PACKET_SIZE + 2)
    /\ address' = 0 /\ nbytes' = 0 /\ size' = 0 /\ doff' = 0
    /\ data' = <<>> /\ cap' = 0 /\ resultPtr' = FALSE /\ result' = <<>>
    /\ hsStatus' = "NONE" /\ initStatus' = "NONE" /\ closeRc' = 1
    /\ address0' = 0 /\ wfailed' = FALSE /\ log' = <<>>
    /\ UNCHANGED sessionVars

Next ==
    \/ OpenCall
    \/ InitSend
    \/ HandshakeSend
    \/ HandshakeRead
    \/ CloseCall
    \/ ClosePort
    \/ VersionCall
    \/ ReadCall
    \/ DumpCall
    \/ TransferSend
    \/ TransferAck
    \/ TransferFrame
    \/ Return

Spec == Init /\ [][Next]_vars

\* ------------------------------------------------------------------------
\* Reading the log
\* ------------------------------------------------------------------------

\* The events of kind k in a piece of the log.
Of(evs, k) == SelectSeq(evs, LAMBDA e : e[1] = k)

\* The transfers of the call: where each was entered, and its events up to
\* the next packet request or the end of the log.
TransferStarts == {i \in 1..Len(log) : log[i][1] = "t"}
SegEnd(i) ==
    LET later == {j \in (i + 1)..Len(log) : log[j][1] \in {"p", "t"}}
    IN  IF later = {} THEN Len(log)
        ELSE (CHOOSE j \in later : \A m \in later : j <= m) - 1
Seg(i) == SubSeq(log, i, SegEnd(i))
Transfers == {Seg(i) : i \in TransferStarts}

Returned(seg) == Of(seg, "ret") # <<>>
Ret(seg) == Of(seg, "ret")[1][2]
CommandOf(seg) == seg[1][2]
WritesOf(seg) == Of(seg, "w")
AcksOf(seg) == Of(seg, "a")
AnswersOf(seg) == Of(seg, "f")

\* Every acknowledgement read of the transfer delivered its byte.
AcksDelivered(seg) == \A j \in 1..Len(AcksOf(seg)) : AcksOf(seg)[j][2] = 1
\* The acknowledgement bytes the transfer has seen.
AckSeq(seg) == [j \in 1..Len(AcksOf(seg)) |-> AcksOf(seg)[j][3]]
\* The device said NAK k times and then ACK.
NaksThenAck(seg, k) ==
    /\ AcksDelivered(seg)
    /\ Len(AckSeq(seg)) = k + 1
    /\ \A j \in 1..k : AckSeq(seg)[j] = NAK
    /\ AckSeq(seg)[k + 1] = ACK
\* The device said NAK every time it was asked.
OnlyNaks(seg) ==
    /\ AcksDelivered(seg)
    /\ \A j \in 1..Len(AckSeq(seg)) : AckSeq(seg)[j] = NAK

\* A full answer frame as the protocol defines it: the checksum byte is the
\* sum of the payload bytes modulo 256, the terminator is NAK.
PayloadSum(buf) == SumBytes(buf, PACKET_SIZE) % 256
FullAnswer(seg) ==
    /\ Len(AnswersOf(seg)) = 1
    /\ AnswersOf(seg)[1][2] = PACKET_SIZE + 2
AnswerBuf(seg) == AnswersOf(seg)[1][3]
ValidAnswer(seg) ==
    /\ FullAnswer(seg)
    /\ AnswerBuf(seg)[PACKET_SIZE + 1] = PayloadSum(AnswerBuf(seg))
    /\ AnswerBuf(seg)[PACKET_SIZE + 2] = NAK

\* ------------------------------------------------------------------------
\* Claims
\* ------------------------------------------------------------------------

\* C1 -- Retry bound of oceanic_veo250_transfer.  With writes that succeed
\* and a device that says NAK k times and then ACK and a valid answer frame:
\* for k <= MAXRETRIES the transfer reads the ACK and the answer and returns
\* success; when the device has said NAK MAXRETRIES + 1 times (every
\* k > MAXRETRIES) the transfer returns the protocol error at once, and it
\* gives up on NAKs at no earlier point.  So success comes with at most
\* MAXRETRIES NAKs.
C1_RetryBound ==
    ~wfailed =>
      \A seg \in Transfers :
        /\ \A k \in 0..MAXRETRIES :
             NaksThenAck(seg, k) /\ ValidAnswer(seg)
               => Returned(seg) /\ Ret(seg) = "SUCCESS"
        /\ \A k \in 0..MAXRETRIES :
             NaksThenAck(seg, k) /\ Returned(seg) => AnswersOf(seg) # <<>>
        /\ OnlyNaks(seg) /\ Len(AckSeq(seg)) > MAXRETRIES
             => /\ Len(AckSeq(seg)) = MAXRETRIES + 1
                /\ Returned(seg) /\ Ret(seg) = "PROTOCOL"
                /\ AnswersOf(seg) = <<>>
        /\ OnlyNaks(seg) /\ Returned(seg)
             => Len(AckSeq(seg)) = MAXRETRIES + 1
        /\ Returned(seg) /\ Ret(seg) = "SUCCESS"
             => \E k \in 0..MAXRETRIES : NaksThenAck(seg, k)

\* C1 witness: a transfer that succeeded after exactly MAXRETRIES NAKs, all
\* writes having succeeded.
C1_Witness ==
    /\ ~wfailed
    /\ \E seg \in Transfers :
         /\ NaksThenAck(seg, MAXRETRIES) /\ ValidAnswer(seg)
         /\ Returned(seg) /\ Ret(seg) = "SUCCESS"

\* C2 -- Frame validation.  Whenever a transfer has read a full answer frame
\* (PACKET_SIZE + 2 bytes, after an ACK) whose checksum byte is not the sum
\* of its payload bytes modulo 256, the transfer returns the protocol error,
\* whatever the payload and the terminator are.
C2_FrameValidation ==
    \A seg \in Transfers :
      FullAnswer(seg)
      /\ AnswerBuf(seg)[PACKET_SIZE + 1] # PayloadSum(AnswerBuf(seg))
        => /\ AckSeq(seg)[Len(AckSeq(seg))] = ACK
           /\ Returned(seg) /\ Ret(seg) = "PROTOCOL"

\* C2 witness: a full answer frame with the right terminator and a wrong
\* checksum byte was read, and the transfer returned.
C2_Witness ==
    \E seg \in Transfers :
      /\ FullAnswer(seg)
      /\ AnswerBuf(seg)[PACKET_SIZE + 1] # PayloadSum(AnswerBuf(seg))
      /\ AnswerBuf(seg)[PACKET_SIZE + 2] = NAK
      /\ Returned(seg)

\* C3 -- Terminator validation.  Whenever a transfer has read a full answer
\* frame whose last byte is not NAK, the transfer returns the protocol
\* error, also when the checksum byte is right.
C3_TerminatorValidation ==
    \A seg \in Transfers :
      FullAnswer(seg) /\ AnswerBuf(seg)[PACKET_SIZE + 2] # NAK
        => /\ AckSeq(seg)[Len(AckSeq(seg))] = ACK
           /\ Returned(seg) /\ Ret(seg) = "PROTOCOL"

\* C3 witness: a full answer frame with the right checksum byte and a
\* terminator other than NAK was read, and the transfer returned.
C3_Witness ==
    \E seg \in Transfers :
      /\ FullAnswer(seg)
      /\ AnswerBuf(seg)[PACKET_SIZE + 1] = PayloadSum(AnswerBuf(seg))
      /\ AnswerBuf(seg)[PACKET_SIZE + 2] # NAK
      /\ Returned(seg)

\* The call is a read or a dump on a session of this backend (a dump is a
\* read of MEMORY_SIZE bytes from address 0).
ReadingCall == op \in {"read", "dump"} /\ handle = "veo250"
\* The packet numbers the read loop has asked for, in order.
PacketsAsked == [i \in 1..Len(Of(log, "p")) |-> Of(log, "p")[i][2]]
\* The commands handed to oceanic_veo250_transfer, in order.
CommandsHanded == [i \in 1..Len(Of(log, "t")) |-> Of(log, "t")[i][2]]

\* C4 -- Packetization.  When a read of size bytes from address (both
\* multiples of PACKET_SIZE) has returned success, every transfer having
\* succeeded, the packet numbers it asked for are address / PACKET_SIZE,
\* address / PACKET_SIZE + 1, ..., (address + size) / PACKET_SIZE - 1: each
\* once, in ascending order, with one transfer for each.
C4_Packetization ==
    ReadingCall /\ pc = "done" /\ status = "SUCCESS"
      => /\ PacketsAsked =
              [i \in 1..(size \div PACKET_SIZE) |->
                  address0 \div PACKET_SIZE + i - 1]
         /\ Len(CommandsHanded) = Len(PacketsAsked)
         /\ \A seg \in Transfers : Returned(seg) /\ Ret(seg) = "SUCCESS"

\* C4 witness: a read of MaxPackets packets that does not start at packet 0
\* has returned success.
C4_Witness ==
    /\ op = "read" /\ handle = "veo250"
    /\ pc = "done" /\ status = "SUCCESS"
    /\ address0 > 0 /\ size = MaxPackets * PACKET_SIZE
    /\ Len(PacketsAsked) = MaxPackets

\* What the transfers of the call have returned, in order, and the call's
\* answer reads.
Rets == [i \in 1..Len(Of(log, "ret")) |-> Of(log, "ret")[i][2]]
\* A transfer of the call has failed (the last one: the call stops there).
TransferFailed == Rets # <<>> /\ Rets[Len(Rets)] # "SUCCESS"
\* The destination after the first k packets were copied into a fresh
\* buffer: the payload of the j-th answer read in packet j, the rest as the
\* caller handed it in.  (A transfer that succeeds reads one answer.)
AfterPackets(k) ==
    [j \in 1..Len(data) |->
        IF j <= k * PACKET_SIZE
        THEN Of(log, "f")[((j - 1) \div PACKET_SIZE) + 1][3]
                         [((j - 1) % PACKET_SIZE) + 1]
        ELSE FreshBuffer(Len(data))[j]]

\* C5 as the spec states it -- Atomicity of read on failure.  If the
\* transfer for a packet of a read or dump fails, the call returns an error
\* and the destination buffer is as it was before the call.
C5_Original ==
    ReadingCall /\ pc = "done" /\ TransferFailed
      => /\ status # "SUCCESS"
         /\ data = FreshBuffer(Len(data))

\* C5, amended -- If the transfer for a packet of a read or dump fails, the
\* call returns that transfer's error and dump does not write the result
\* count; the destination buffer is not restored: it holds the payloads of
\* the packets received before the failing one, in order, and is unchanged
\* from there on.
C5_ReadFailureLeavesPackets ==
    ReadingCall /\ pc = "done" /\ TransferFailed
      => /\ status = Rets[Len(Rets)]
         /\ \A i \in 1..(Len(Rets) - 1) : Rets[i] = "SUCCESS"
         /\ result = <<>>
         /\ data = AfterPackets(Len(Rets) - 1)

\* C5 witness: a read or dump whose second or later transfer failed.
C5_Witness ==
    /\ ReadingCall /\ pc = "done" /\ TransferFailed
    /\ Len(Rets) >= 2
    /\ data # FreshBuffer(Len(data))

\* C6 -- Dump sizing.  A dump into a buffer smaller than MEMORY_SIZE has
\* returned DEVICE_STATUS_ERROR at once: nothing was written to or read from
\* the port, and the buffer and the result count are as they were.
C6_DumpSizing ==
    op = "dump" /\ handle = "veo250" /\ cap < MEMORY_SIZE
      => /\ pc = "done" /\ status = "ERROR"
         /\ log = <<>> /\ ~wfailed
         /\ data = FreshBuffer(cap)
         /\ result = <<>>

\* C6 witness: a dump with a result pointer into a buffer one byte short.
C6_Witness ==
    /\ op = "dump" /\ handle = "veo250" /\ pc = "done"
    /\ cap = MEMORY_SIZE - 1 /\ resultPtr

\* The handshake reads of the call: what serial_read returned and the
\* buffer after it.
Shakes == Of(log, "h")

\* C7 -- Handshake banner.  The handshake returns success only when it read
\* 14 bytes equal to the banner; a 14 byte reply that differs (in any one
\* byte) gives the protocol error; a failed or short read gives the I/O
\* error (-1) or the timeout error, never the protocol error.
C7_HandshakeBanner ==
    /\ hsStatus = "SUCCESS"
         => /\ Len(Shakes) = 1
            /\ Shakes[1][2] = 14
            /\ \A i \in 1..14 : Shakes[1][3][i] = Banner[i]
    /\ \A j \in 1..Len(Shakes) :
         /\ Shakes[j][2] = 14 /\ Shakes[j][3] # Banner
              => hsStatus = "PROTOCOL"
         /\ Shakes[j][2] # 14
              => hsStatus = (IF Shakes[j][2] = -1 THEN "IO" ELSE "TIMEOUT")

\* C7 witness: a 14 byte reply that differs from the banner in its last
\* byte only was read.
C7_Witness ==
    /\ Len(Shakes) = 1
    /\ Shakes[1][2] = 14
    /\ Shakes[1][3] = MutatedBanner(14, 80)
    /\ hsStatus = "PROTOCOL"

\* C8 -- Close always releases.  A close of a session of this backend sends
\* the handshake command first and then goes on to serial_close and free,
\* whatever the handshake returned; when it has returned, the port is no
\* longer open, the session is freed, and the status is a failure exactly
\* when serial_close failed.
C8_CloseReleases ==
    op = "close" /\ handle = "veo250"
      => /\ pc \in {"hs_send", "hs_read", "close_port", "done"}
         /\ pc # "hs_send"
              => Of(log, "w") = << <<"w", HandshakeCommand>> >>
         /\ pc \in {"close_port", "done"} => hsStatus # "NONE"
         /\ pc # "done" => alloc /\ port = "open" /\ closeRc = 1
         /\ pc = "done"
              => /\ closeRc \in {-1, 0}
                 /\ ~alloc /\ port # "open"
                 /\ status = (IF closeRc = -1 THEN "IO" ELSE "SUCCESS")

\* C8 witness: a close has returned success although a write failed and the
\* handshake did not succeed.
C8_Witness ==
    /\ op = "close" /\ handle = "veo250" /\ pc = "done"
    /\ wfailed /\ hsStatus \in {"IO", "TIMEOUT", "PROTOCOL"}
    /\ status = "SUCCESS"

\* C9 -- Version query end to end.  When the device has answered the version
\* command {0x90, 0x00} with ACK and a valid answer frame, version returns
\* success, the first PACKET_SIZE bytes of the caller's buffer are the
\* payload of that frame and the rest of the buffer is untouched.
C9_VersionEndToEnd ==
    op = "version" /\ handle = "veo250"
      => /\ \A i \in 1..Len(Of(log, "w")) :
              Of(log, "w")[i][2] = <<144, 0>>
         /\ \A seg \in Transfers :
              AckSeq(seg) # <<>> /\ AckSeq(seg)[Len(AckSeq(seg))] = ACK
              /\ ValidAnswer(seg)
                => /\ pc = "done" /\ status = "SUCCESS"
                   /\ \A j \in 1..PACKET_SIZE : data[j] = AnswerBuf(seg)[j]
                   /\ \A j \in (PACKET_SIZE + 1)..Len(data) :
                        data[j] = FreshBuffer(Len(data))[j]

\* C9 witness: version has returned after an ACK and a valid answer frame
\* with two different payload bytes, into a buffer larger than a packet.
C9_Witness ==
    /\ op = "version" /\ handle = "veo250" /\ pc = "done"
    /\ cap > PACKET_SIZE
    /\ \E seg \in Transfers :
         /\ ValidAnswer(seg)
         /\ AnswerBuf(seg)[1] # AnswerBuf(seg)[2]

\* The acknowledgement reads of the transfer entered at log[i] that
\* delivered a byte: their positions in the transfer's events.
AckPositions(i) == {q \in 1..Len(Seg(i)) : Seg(i)[q][1] = "a" /\ Seg(i)[q][2] = 1}
\* How many acknowledgement reads the transfer had made up to position q.
AckCount(i, q) == Len(Of(SubSeq(Seg(i), 1, q), "a"))
\* After position q the transfer counted a retry and sent its command
\* again (the write has happened, or is the next thing to happen).
Retried(i, q) ==
    IF q < Len(Seg(i))
    THEN Seg(i)[q + 1] = <<"w", CommandOf(Seg(i))>>
    ELSE /\ SegEnd(i) = Len(log)
         /\ pc = "t_send" /\ nretries = AckCount(i, q)
         /\ command = CommandOf(Seg(i))
\* After position q the transfer returned the protocol error.
GaveUp(i, q) ==
    /\ q < Len(Seg(i))
    /\ Seg(i)[q + 1] = <<"ret", "PROTOCOL">>

\* C10 as the spec states it -- Retry on any non-ACK byte.  Whenever the
\* acknowledgement byte is not ACK (NAK or any other byte) and fewer than
\* MAXRETRIES retries have been counted, a retry is counted and the command
\* is sent again; the transfer gives up on a non-ACK byte only once
\* MAXRETRIES retries have been used.
C10_Original ==
    \A i \in TransferStarts : \A q \in AckPositions(i) :
      Seg(i)[q][3] # ACK
        => IF AckCount(i, q) <= MAXRETRIES
           THEN Retried(i, q)
           ELSE GaveUp(i, q)

\* C10, amended -- Retry on NAK only.  Whenever the acknowledgement byte is
\* NAK and fewer than MAXRETRIES retries have been counted, a retry is
\* counted and the command is sent again; on a NAK after MAXRETRIES retries
\* the transfer returns the protocol error; on any other byte that is not
\* ACK it returns the protocol error at once, without a retry.
C10_RetryOnNakOnly ==
    \A i \in TransferStarts : \A q \in AckPositions(i) :
      /\ AckCount(i, q) <= MAXRETRIES + 1
      /\ Seg(i)[q][3] = NAK
           => IF AckCount(i, q) <= MAXRETRIES
              THEN Retried(i, q)
              ELSE GaveUp(i, q)
      /\ Seg(i)[q][3] \notin {ACK, NAK} => GaveUp(i, q)

\* C10 witness: within one transfer a NAK was followed by a retry, and the
\* byte 0 read next ended the transfer.
C10_Witness ==
    \E i \in TransferStarts : \E q \in AckPositions(i) :
      /\ Seg(i)[q][3] = NAK
      /\ q + 3 <= Len(Seg(i))
      /\ Seg(i)[q + 1][1] = "w"
      /\ Seg(i)[q + 2] = <<"a", 1, 0>>
      /\ Seg(i)[q + 3] = <<"ret", "PROTOCOL">>

\* C11 -- Short acknowledgement read aborts.  Whenever the 1 byte
\* acknowledgement read of a transfer returns anything but 1, the transfer
\* returns right then: the I/O error for -1, the timeout error for 0 bytes,
\* never the protocol error; the command is not sent again and no answer is
\* read.
C11_ShortAckAborts ==
    \A i \in TransferStarts : \A q \in 1..Len(Seg(i)) :
      Seg(i)[q][1] = "a" /\ Seg(i)[q][2] # 1
        => /\ Len(Seg(i)) = q + 1
           /\ Seg(i)[q + 1] =
                <<"ret", IF Seg(i)[q][2] = -1 THEN "IO" ELSE "TIMEOUT">>
           /\ AnswersOf(Seg(i)) = <<>>
           /\ Len(WritesOf(Seg(i))) = Len(AcksOf(Seg(i)))
           /\ SegEnd(i) = Len(log) /\ pc = "done"

\* C11 witness: the second acknowledgement read of a transfer (after a NAK
\* and a resend) returned 0 bytes, and the transfer returned.
C11_Witness ==
    \E seg \in Transfers :
      /\ Len(AcksOf(seg)) = 2
      /\ AcksOf(seg)[1] = <<"a", 1, NAK>>
      /\ AcksOf(seg)[2][2] = 0
      /\ Returned(seg)

\* C12 -- Send failures are surfaced.  When serial_write or serial_drain
\* fails while a command is sent: init returns the I/O error, and it fails in
\* no other case; the handshake returns that failure without reading its
\* reply; a transfer returns that failure without reading an
\* acknowledgement, which ends the version, read or dump call.
\* (In open the only write before the handshake command is init's; in the
\* other calls a failed write would be the last thing the call did.)
C12_SendFailuresSurfaced ==
    /\ op = "open" /\ pc = "hs_send"
         => initStatus = (IF wfailed THEN "IO" ELSE "SUCCESS")
    /\ op = "close" /\ wfailed
         => /\ hsStatus = "IO"
            /\ Shakes = <<>>
            /\ pc \in {"close_port", "done"}
    /\ op \in {"version", "read", "dump"} /\ wfailed
         => /\ pc = "done" /\ status = "IO"
            /\ Len(log) >= 2
            /\ log[Len(log) - 1][1] = "w"
            /\ log[Len(log)] = <<"ret", "IO">>

\* The answer read at position q of seg is not a frame the transfer
\* accepts: it is short, or its checksum byte or its terminator is wrong.
BadAnswerAt(seg, q) ==
    /\ seg[q][1] = "f"
    /\ \/ seg[q][2] # PACKET_SIZE + 2
       \/ seg[q][3][PACKET_SIZE + 1] # PayloadSum(seg[q][3])
       \/ seg[q][3][PACKET_SIZE + 2] # NAK

\* C13 -- Retries are confined to the acknowledgement step.  In a transfer
\* no command is written after an ACK was read; there is at most one answer
\* read, and a short answer, a checksum mismatch or a wrong terminator ends
\* the transfer with an error right after it; a transfer that failed is the
\* last one of its version, read or dump call.
C13_RetriesConfinedToAck ==
    /\ op = "version" => Len(Of(log, "t")) <= 1
    /\ \A i \in TransferStarts :
         /\ \A q \in AckPositions(i) :
              Seg(i)[q][3] = ACK
                => \A r \in (q + 1)..Len(Seg(i)) : Seg(i)[r][1] # "w"
         /\ Len(AnswersOf(Seg(i))) <= 1
         /\ \A q \in 1..Len(Seg(i)) :
              BadAnswerAt(Seg(i), q)
                => /\ Len(Seg(i)) = q + 1
                   /\ Seg(i)[q + 1][1] = "ret"
                   /\ Seg(i)[q + 1][2] \in {"IO", "TIMEOUT", "PROTOCOL"}
         /\ Returned(Seg(i)) /\ Ret(Seg(i)) # "SUCCESS"
              => SegEnd(i) = Len(log) /\ pc = "done"

\* C13 witness: the second transfer of a read was acknowledged after a NAK,
\* read an answer with a wrong checksum byte, and the call has returned.
C13_Witness ==
    /\ ReadingCall /\ pc = "done"
    /\ Len(Of(log, "t")) = 2
    /\ \E seg \in Transfers :
         /\ NaksThenAck(seg, 1)
         /\ FullAnswer(seg)
         /\ AnswerBuf(seg)[PACKET_SIZE + 1] # PayloadSum(AnswerBuf(seg))
         /\ Returned(seg) /\ Ret(seg) = "PROTOCOL"
    /\ log[Len(log)] = <<"ret", "PROTOCOL">>

\* C14 -- Read aborts on the first failure.  In a read or dump, a transfer
\* that returned a status other than success is the last thing that
\* happened on the port: the call has returned with exactly that status, and
\* no later packet was asked for, no command written and no read issued
\* after it.
C14_ReadAbortsOnFirstFailure ==
    ReadingCall =>
      \A q \in 1..Len(log) :
        log[q][1] = "ret" /\ log[q][2] # "SUCCESS"
          => /\ q = Len(log)
             /\ pc = "done"
             /\ status = log[q][2]

\* C14 witness: the first transfer of a read of MaxPackets packets failed
\* after its answer read came back short.
C14_Witness ==
    /\ op = "read" /\ handle = "veo250"
    /\ size = MaxPackets * PACKET_SIZE
    /\ Len(PacketsAsked) = 1
    /\ Rets = <<"TIMEOUT">>
    /\ Len(Of(log, "f")) = 1

\* The position in the destination of packet number, in a read from
\* address0.
SlotOf(number) == (number - address0 \div PACKET_SIZE) * PACKET_SIZE

\* C15 -- Read result on success.  When a read of size bytes from address
\* has returned success, each packet asked for had one transfer, which read
\* one valid answer frame, and the destination holds that frame's payload at
\* the packet's place: bytes [i * PACKET_SIZE, (i + 1) * PACKET_SIZE) for
\* packet address / PACKET_SIZE + i.  That makes size bytes; the bytes from
\* offset size on are as the caller handed them in.
C15_ReadResult ==
    ReadingCall /\ pc = "done" /\ status = "SUCCESS"
      => /\ Cardinality(TransferStarts) = size \div PACKET_SIZE
         /\ \A i \in TransferStarts :
              /\ i > 1 /\ log[i - 1][1] = "p"
              /\ ValidAnswer(Seg(i))
              /\ SlotOf(log[i - 1][2]) \in 0..(size - PACKET_SIZE)
              /\ \A j \in 1..PACKET_SIZE :
                   data[SlotOf(log[i - 1][2]) + j] = AnswerBuf(Seg(i))[j]
         /\ \A i, k \in TransferStarts :
              i # k => log[i - 1][2] # log[k - 1][2]
         /\ \A j \in (size + 1)..Len(data) :
              data[j] = FreshBuffer(Len(data))[j]

\* C15 witness: a read of MaxPackets packets has returned success with
\* different payloads in its first two packets.
C15_Witness ==
    /\ op = "read" /\ handle = "veo250"
    /\ pc = "done" /\ status = "SUCCESS"
    /\ size = MaxPackets * PACKET_SIZE
    /\ Len(data) > size
    /\ SubSeq(data, 1, PACKET_SIZE)
         # SubSeq(data, PACKET_SIZE + 1, 2 * PACKET_SIZE)

\* The commands written to the port during the call, in order.
Written == [i \in 1..Len(Of(log, "w")) |-> Of(log, "w")[i][2]]

\* C16 -- Session command ordering.  In open, nothing is written before the
\* port is opened and set up; then {0x55, 0x00} is written once, then
\* {0x98, 0x00} once, and nothing else.  In close on a session of this
\* backend {0x98, 0x00} alone is written, once, while the port is still
\* open; the port is closed after that.
C16_SessionCommandOrdering ==
    /\ op = "open" =>
         /\ pc = "init_send" => Written = <<>> /\ port = "open"
         /\ pc = "hs_send" => Written = << <<85, 0>> >> /\ port = "open"
         /\ pc = "hs_read" =>
              Written = << <<85, 0>>, <<152, 0>> >> /\ port = "open"
         /\ pc = "done" =>
              IF status = "SUCCESS"
              THEN Written = << <<85, 0>>, <<152, 0>> >> /\ port = "open"
              ELSE Written = <<>>
    /\ op = "close" /\ handle = "veo250" =>
         /\ pc = "hs_send" => Written = <<>> /\ port = "open"
         /\ pc \in {"hs_read", "close_port"} =>
              Written = << <<152, 0>> >> /\ port = "open"
         /\ pc = "done" => Written = << <<152, 0>> >> /\ port # "open"

\* C16 witness: an open has written both commands and read the reply to the
\* handshake.
C16_Witness ==
    /\ op = "open" /\ pc = "done"
    /\ Written = <<InitCommand, HandshakeCommand>>
    /\ Len(Of(log, "h")) = 1

\* C17 -- Open ignores the status of init and handshake.  Once the port is
\* opened and set up, open does not fail: the session stays allocated and
\* the port open while init and handshake run, and open returns success
\* whatever they returned, also when the reply to the handshake was short or
\* was not the banner.
C17_OpenIgnoresHandshake ==
    op = "open" =>
      /\ pc \in {"init_send", "hs_send", "hs_read"} => alloc /\ port = "open"
      /\ pc = "done" /\ Written # <<>>
           => /\ status = "SUCCESS"
              /\ alloc /\ port = "open"
              /\ hsStatus \in {"SUCCESS", "IO", "TIMEOUT", "PROTOCOL"}

\* C17 witness: an open returned success after a full handshake reply that
\* is not the banner, which the handshake reported as a protocol error.
C17_Witness ==
    /\ op = "open" /\ pc = "done" /\ status = "SUCCESS"
    /\ hsStatus = "PROTOCOL"
    /\ Len(Of(log, "h")) = 1
    /\ Of(log, "h")[1][2] = BannerLen
    /\ Of(log, "h")[1][3] # Banner

\* The packet numbers a read of the model can ask for.
NumbersInReach ==
    {a \div PACKET_SIZE + k : a \in Addresses, k \in 0..MaxPackets}
\* The encoding of packet number n as the specification gives it.
Encoded(n) ==
    <<32, n % 256, (n \div 256) % 256, n % 256, (n \div 256) % 256, 0>>

\* C18 -- Read command encoding.  For every packet number n a read asks
\* for, the command handed to the transfer, and written by it each time, is
\* the six bytes 0x20, n mod 256, (n div 256) mod 256, n mod 256,
\* (n div 256) mod 256, 0x00.  For n < 65536 both copies decode
\* (lo + 256 * hi) to n, and the command differs from the encoding of every
\* other packet number below 65536.
C18_ReadCommandEncoding ==
    \A i \in TransferStarts :
      i > 1 /\ log[i - 1][1] = "p" =>
        LET n == log[i - 1][2]
            cmd == log[i][2]
        IN  /\ cmd = Encoded(n)
            /\ \A j \in 1..Len(WritesOf(Seg(i))) :
                 WritesOf(Seg(i))[j][2] = cmd
            /\ n < 65536 =>
                 /\ cmd[2] + 256 * cmd[3] = n
                 /\ cmd[4] + 256 * cmd[5] = n
                 /\ \A m \in NumbersInReach :
                      m < 65536 /\ m # n => Encoded(m) # cmd

\* C18 witness: a read asked for packet 255 and then for packet 256, whose
\* command carries into the high bytes, and that command was written.
C18_Witness ==
    /\ op = "read"
    /\ Len(PacketsAsked) = 2
    /\ PacketsAsked[1] = 255 /\ PacketsAsked[2] = 256
    /\ CommandsHanded[2] = <<32, 0, 1, 0, 1, 0>>
    /\ log[Len(log)] = <<"w", <<32, 0, 1, 0, 1, 0>> >>

\* In every transfer so far: at most MAXRETRIES + 1 command writes and
\* acknowledgement reads and at most one answer read; and a read of size
\* bytes has begun at most size / PACKET_SIZE transfers.
C19_Counts ==
    /\ \A i \in TransferStarts :
         /\ Len(WritesOf(Seg(i))) <= MAXRETRIES + 1
         /\ Len(AcksOf(Seg(i))) <= MAXRETRIES + 1
         /\ Len(AnswersOf(Seg(i))) <= 1
         /\ Len(Of(Seg(i), "ret")) <= 1
    /\ op = "version" => Cardinality(TransferStarts) <= 1
    /\ ReadingCall => Cardinality(TransferStarts) <= size \div PACKET_SIZE
\* A step of a call that is in a transfer is a transport call that has
\* returned: it adds to what has happened on the port.
C19_Progress ==
    pc \in {"t_send", "t_ack", "t_frame"} => Len(log') > Len(log)

\* C19 -- Bounded termination.  Every transfer makes at most
\* MAXRETRIES + 1 = 3 command writes, at most 3 acknowledgement reads and at
\* most one answer read, whatever the device sends, and returns once; a read
\* of size bytes makes at most size / PACKET_SIZE transfers; and each
\* transport call that returns uses up one of these, so the call ends.
C19_BoundedTermination ==
    /\ [](C19_Counts /\ MAXRETRIES + 1 = 3)
    /\ [][C19_Progress]_vars

\* C19 witness: the second transfer of a read has made three writes and
\* three acknowledgement reads, the last one an ACK, and one answer read,
\* and has returned.
C19_Witness ==
    /\ ReadingCall /\ Cardinality(TransferStarts) = 2
    /\ \E seg \in Transfers :
         /\ Len(WritesOf(seg)) = 3
         /\ NaksThenAck(seg, 2)
         /\ Len(AnswersOf(seg)) = 1
         /\ Returned(seg)
    /\ log[Len(log)][1] = "ret"

\* C20 -- Version is all-or-nothing.  Until version has returned success
\* the caller's buffer is as it was handed in, so it is untouched whenever
\* version returns another status; with a capacity below PACKET_SIZE
\* version has returned the memory error without any write to or read from
\* the port.
C20_VersionAllOrNothing ==
    op = "version" =>
      /\ pc # "done" \/ status # "SUCCESS" => data = FreshBuffer(cap)
      /\ handle = "veo250" /\ cap < PACKET_SIZE
           => /\ pc = "done" /\ status = "MEMORY"
              /\ log = <<>> /\ ~wfailed

\* C20 witness: version read a full answer frame with a right checksum byte
\* and a wrong terminator and returned the protocol error.
C20_Witness ==
    /\ op = "version" /\ pc = "done" /\ status = "PROTOCOL"
    /\ cap >= PACKET_SIZE
    /\ \E seg \in Transfers :
         /\ FullAnswer(seg)
         /\ AnswerBuf(seg)[PACKET_SIZE + 1] = PayloadSum(AnswerBuf(seg))
         /\ AnswerBuf(seg)[PACKET_SIZE + 2] # NAK
         /\ \E j \in 1..PACKET_SIZE : AnswerBuf(seg)[j] # FreshBuffer(cap)[j]

====
